---- MODULE Spec2Model ----
(***************************************************************************)
(* Model of the simulated car environment (arduino_car_ai/environment.py), *)
(* its two callers (train.py, arduino_controller.py test_model_in_        *)
(* simulator) and the deployment controller (arduino_controller.py).       *)
(*                                                                         *)
(* Floating point quantities are kept in fixed point:                      *)
(*   positions, velocities, distances moved : 1/1000 of a pixel (POS)      *)
(*   angles                                 : milliradians                 *)
(*   cos / sin                              : 1/1000                       *)
(*   normalised state components            : 1/1000 (ONE = 1.0)           *)
(*   rewards                                : 1/10000 (RSCALE)             *)
(***************************************************************************)
EXTENDS Integers, Sequences, FiniteSets, TLC

\* ---------------------------------------------------------------- bounds
\* Longest episode, in steps, that the specification Spec explores with a
\* free choice of action at every step.
MaxLen == 2

\* Lines the serial reader parses while one get_state call is running
MaxUpdates == 2

\* Iterations of the RobotApp control loop in a run
MaxTicks == 6

\* The replay buffer's capacity and the minibatch size, scaled down
Capacity == 3
BatchSize == 2

\* ------------------------------------------------------ fixed-point units
POS == 1000
ONE == 1000
RSCALE == 10000
PiM == 3142
HalfPiM == 1571
TwoPiM == 6283

\* ------------------------------------------- CarSimulatorEnv.__init__
width == 800
height == 600
car_size == 30
sensor_range == 200
max_speed == 5
min_speed == 1

\* step's termination limits and reward thresholds
MaxSteps == 1000
MaxStationary == 50
StationaryPatience == 10
MoveThreshold == 500
TurnStep == 100
Proximity == 200

\* ------------------------------------------------------------ arithmetic
\* int(): truncation toward zero of a fixed-point value (pygame.Rect
\* converts float coordinates this way)
Trunc(v) == IF v >= 0 THEN v \div POS ELSE -((-v) \div POS)

\* math.sin on milliradians, result in 1/1000 (odd Taylor polynomial of
\* degree 7 on the angle folded into [-pi/2, pi/2])
SinPoly(x) ==
    LET x2 == (x * x) \div 1000
        x3 == (x2 * x) \div 1000
        x5 == (x3 * x2) \div 1000
        x7 == (x5 * x2) \div 1000
    IN  x - (x3 \div 6) + (x5 \div 120) - (x7 \div 5040)

Sin(a) ==
    LET r == a % TwoPiM
    IN  IF r <= HalfPiM THEN SinPoly(r)
        ELSE IF r <= PiM + HalfPiM THEN SinPoly(PiM - r)
        ELSE SinPoly(r - TwoPiM)

Cos(a) == Sin(a + HalfPiM)

\* math.sqrt on a non-negative integer (floor), by bisection
RECURSIVE SqrtBetween(_, _, _)
SqrtBetween(n, lo, hi) ==
    IF lo >= hi THEN lo
    ELSE LET mid == (lo + hi + 1) \div 2
         IN  IF mid * mid <= n THEN SqrtBetween(n, mid, hi)
             ELSE SqrtBetween(n, lo, mid - 1)

Sqrt(n) == SqrtBetween(n, 0, 40000)

Abs(n) == IF n >= 0 THEN n ELSE -n

Min2(a, b) == IF a <= b THEN a ELSE b

\* --------------------------------------------------------- pygame.Rect
\* A rectangle is kept as << left, top, right, bottom >>
Rect(x, y, w, h) == << x, y, x + w, y + h >>

\* pygame.Rect.colliderect: overlap of positive area; touching edges and
\* empty rectangles do not collide
colliderect(a, b) ==
    /\ a[1] < b[3]
    /\ b[1] < a[3]
    /\ a[2] < b[4]
    /\ b[2] < a[4]
    /\ a[1] < a[3] /\ a[2] < a[4] /\ b[1] < b[3] /\ b[2] < b[4]

\* ------------------------------------------- generate_obstacles
BorderWalls ==
    << Rect(0, 0, width, 10),
       Rect(0, 0, 10, height),
       Rect(0, height - 10, width, 10),
       Rect(width - 10, 0, 10, height) >>

\* Interior layouts random.randint can draw: x in 100..width-100,
\* y in 100..height-100, w and h in 40..100.  The first is clear of the
\* arena centre, the second has a rectangle over it.
InteriorClear ==
    << Rect(100, 100, 40, 40),  Rect(600, 100, 100, 60),
       Rect(150, 400, 80, 80),  Rect(550, 420, 60, 100),
       Rect(250, 150, 50, 50),  Rect(480, 180, 40, 90),
       Rect(300, 380, 70, 40),  Rect(650, 300, 100, 100) >>

InteriorBlocked ==
    << Rect(380, 280, 60, 60),  Rect(600, 100, 100, 60),
       Rect(150, 400, 80, 80),  Rect(550, 420, 60, 100),
       Rect(250, 150, 50, 50),  Rect(480, 180, 40, 90),
       Rect(300, 380, 70, 40),  Rect(650, 300, 100, 100) >>

\* A third draw: a rectangle just below the car's starting square
InteriorNear ==
    << Rect(390, 320, 60, 60),  Rect(600, 100, 100, 60),
       Rect(150, 400, 80, 80),  Rect(550, 420, 60, 100),
       Rect(250, 150, 50, 50),  Rect(480, 180, 40, 90),
       Rect(300, 380, 70, 40),  Rect(650, 300, 100, 100) >>

InteriorLayouts == {InteriorClear, InteriorBlocked}

generate_obstacles(interior) == BorderWalls \o interior

\* ------------------------------------------------------------- cast_ray
\* The ray point at increment dist (lines 91-92), in 1/1000 pixel
RayX(px, cosA, dist) == px + dist * cosA
RayY(py, sinA, dist) == py + dist * sinA

\* Lines 95-102: the ray point is outside the arena, or its 2x2 rectangle
\* collides with an obstacle
RayHit(px, py, cosA, sinA, dist, obs) ==
    \E x \in {RayX(px, cosA, dist)} : \E y \in {RayY(py, sinA, dist)} :
        \/ x < 0 \/ x > width * POS \/ y < 0 \/ y > height * POS
        \/ \E point \in {Rect(Trunc(x - POS), Trunc(y - POS), 2, 2)} :
             \E i \in 1..Len(obs) : colliderect(obs[i], point)

\* Variant: the march starts at the car's own position
RayIncrementsFromZero == 0..(sensor_range - 1)

\* The increments range(1, sensor_range) visits
RayIncrements == 1..(sensor_range - 1)

\* for dist in RayIncrements: ... return dist;  return sensor_range
\* The loop returns at the least increment that hits.
RayMarch(px, py, cosA, sinA, obs) ==
    IF \E d \in RayIncrements : RayHit(px, py, cosA, sinA, d, obs)
    THEN CHOOSE d \in RayIncrements :
            /\ RayHit(px, py, cosA, sinA, d, obs)
            /\ \A e \in RayIncrements :
                  e < d => ~RayHit(px, py, cosA, sinA, e, obs)
    ELSE sensor_range

\* math.cos(angle) and math.sin(angle) are evaluated once per ray
cast_ray(px, py, angle, obs) ==
    CHOOSE r \in { RayMarch(px, py, c, s, obs) :
                     c \in {Cos(angle)}, s \in {Sin(angle)} } : TRUE

\* -------------------------------------------------------- get_distances
\* -60, 0, +60 degrees (math.pi/3 = 1047 mrad)
AngleOffsets == << -1047, 0, 1047 >>

\* Variant: the reading is divided without being capped
NormalizeUncapped(distance) == (distance * ONE) \div 200

\* min(distance, 200) / 200.0
Normalize(distance) == (Min2(distance, 200) * ONE) \div 200

get_distances(px, py, angle, obs) ==
    [i \in 1..3 |-> Normalize(cast_ray(px, py, angle + AngleOffsets[i], obs))]

\* np.array(distances + [car_speed / 5.0])
SpeedNorm(speed) == (speed * ONE) \div 5

get_state(px, py, angle, speed, obs) ==
    get_distances(px, py, angle, obs) \o << SpeedNorm(speed) >>

\* ------------------------------------------------------ check_collision
check_collision(px, py, obs) ==
    LET half == car_size \div 2
        car_rect == Rect(Trunc(px - half * POS), Trunc(py - half * POS),
                         car_size, car_size)
    IN  \/ px < half * POS
        \/ px > (width - half) * POS
        \/ py < half * POS
        \/ py > (height - half) * POS
        \/ \E i \in 1..Len(obs) : colliderect(car_rect, obs[i])

\* ================================================================ state
VARIABLES
    program,            \* what was started: "simulator" (train.py, or
                        \* arduino_controller.py --test) | "deploy" |
                        \* "train" | "eval" | "app" | "motors" | "simple" |
                        \* "pad"
    obstacles,          \* self.obstacles
    car_x, car_y,       \* self.car_x, self.car_y          (1/1000 pixel)
    car_angle,          \* self.car_angle                  (milliradians)
    car_speed,          \* self.car_speed                  (level)
    car_velocity,       \* self.car_velocity               (1/1000 pixel)
    steps,              \* self.steps
    total_distance,     \* self.total_distance             (1/1000 pixel)
    stationary_steps,   \* self.stationary_steps
    state,              \* the caller's state: last vector reset/step returned
    reward,             \* reward returned by the last step (1/10000)
    done,               \* the caller's done flag
    collision,          \* step's local: collision of the last step
    distance_moved,     \* step's local: distance_moved of the last step
    min_distance,       \* step's local: min_distance of the last step
    lastCall,           \* the last simulator call and its action argument
    ctrl_pc,            \* ArduinoAIController.start: "created" | "control"
    connected,          \* self.connected
    distances,          \* self.distances
    current_speed,      \* self.current_speed
    ctrl_action,        \* run_ai_control's local action (-1: none yet)
    sent,               \* last command written to the serial port ("": none)
    loop_pc,            \* position of train_agent / test_model_in_simulator
    episode,            \* the for loop's index
    episodes,           \* train_agent's episodes argument
    policy,             \* the indices agent.act returns in this run
    loop_state,         \* the loop's local state
    loop_action,        \* the loop's local action (-1: none yet)
    act_arg,            \* the state the last agent.act call was given
    act_mode,           \* "training" / "greedy": its training argument
    total_reward,       \* the loop's local total_reward
    memory,             \* agent.memory, oldest transition first
    replayed,           \* whether the last step was followed by replay()
    epsilon,            \* agent.epsilon, in 1/1000
    online,             \* the agent's online network parameters
    target,             \* the agent's target network parameters
    file,               \* the checkpoint file's content
    loaded,             \* outcome of agent.load: "no" / "ok" / "failed"
    syncs,              \* episode indices update_target_network ran after
    saves,              \* the agent.save calls so far, in order
    render_mode,        \* env.render_mode
    screen,             \* whether init_pygame has opened the window
    shown,              \* the steps drawn in the last rendered episode:
                        \* where each started, its action, what it produced
    seen,               \* what the running get_state call has read so far
    snapshots,          \* self.distances as it stood when that call began
                        \* and after each update since
    app_pc,             \* position of RobotApp.run
    app_running,        \* RobotApp.running
    keys_pressed,       \* KeyboardController.keys_pressed
    key,                \* update's local key of the last iteration
    kb_servo,           \* KeyboardController.servo_angle
    mc_connected,       \* MotorController.connected
    port_open,          \* whether MotorController.serial_port is open
    left_speed,         \* MotorController.left_speed
    right_speed,        \* MotorController.right_speed
    mc_servo,           \* MotorController.servo_angle
    ticks,              \* iterations of RobotApp.run's loop so far
    returned,           \* the last MotorController call made directly and
                        \* the value it returned
    ui_pc,              \* position of SimpleRobotController.run or of
                        \* PS5RobotController.run
    ui_connected,       \* that controller's self.connected
    ui_running,         \* its self.running
    ui_speed,           \* SimpleRobotController.current_speed
    ui_servo,           \* PS5RobotController.servo_angle
    ui_reader,          \* whether a read_serial thread is alive
    last_distance,      \* SimpleRobotController.last_distance
    ui_sent,            \* last command that controller wrote ("": none)
    port_log,           \* what a front-end's shutdown did to its port
    wire                \* the commands written to the port since the
                        \* current loop iteration (or the shutdown) began

envVars == << obstacles, car_x, car_y, car_angle, car_speed, car_velocity,
              steps, total_distance, stationary_steps >>
callVars == << state, reward, done, collision, distance_moved,
               min_distance, lastCall >>
ctrlVars == << ctrl_pc, connected, distances, current_speed, ctrl_action,
               sent >>
loopVars == << loop_pc, episode, episodes, policy, loop_state, loop_action,
               act_arg, total_reward, replayed, syncs, saves >>
agentVars == << act_mode, memory, epsilon, online, target, file, loaded >>
viewVars == << render_mode, screen, shown >>
readVars == << seen, snapshots >>
appVars == << app_pc, app_running, keys_pressed, key, kb_servo, mc_connected,
             port_open, left_speed, right_speed, mc_servo, ticks, returned,
             wire >>
uiState == << ui_pc, ui_connected, ui_running, ui_speed, ui_servo, ui_reader,
             last_distance, ui_sent >>
uiVars == << uiState, port_log >>
vars == << program, envVars, callVars, ctrlVars, loopVars, agentVars,
           viewVars, readVars, appVars, uiVars >>

\* ------------------------------------------------------------- agents
\* train.py builds DQNAgent(action_size=8); test_model_in_simulator and
\* ArduinoAIController build DQNAgent(action_size=9)
TrainActionSize == 8
EvalActionSize == 9
DeployActionSize == 9

\* for episode in range(5)   (controller line 198)
EvalEpisodes == 5

Callers == {"train", "eval"}

action_size(c) ==
    IF c = "train" THEN TrainActionSize
    ELSE IF c = "eval" THEN EvalActionSize
    ELSE DeployActionSize

\* DQNAgent.act returns an index into its action_size outputs (a random
\* index when exploring, the argmax of the network's outputs otherwise)
act(c) == 0..(action_size(c) - 1)

\* What either simulator loop's agent can pass to step
CallerActions == UNION { act(c) : c \in Callers }

\* The action indices step has a branch for (lines 122-134)
EnvActions == 0..7

\* ---------------------------------------------------------- DQNAgent
\* Network parameters are kept as the number of outputs and the number of
\* gradient steps that produced them; a new agent's are untrained
Net(size, version) == [size |-> size, version |-> version]

\* A gradient step yields new parameters
Trained(net) == Net(net.size, net.version + 1)

\* The agent's exploration settings, in 1/1000
EpsStart == 1000
EpsMin == 10
EpsDecay == 995

\* A transition as agent.remember receives it
Transition(s, a, r, s2, d) ==
    [state |-> s, action |-> a, reward |-> r, next_state |-> s2, done |-> d]

\* Variant: a full buffer drops the incoming transition
rememberDropsNewest(mem, t) ==
    IF Len(mem) < Capacity THEN Append(mem, t) ELSE mem

\* agent.remember: append, the oldest entry leaving a full buffer
remember(mem, t) ==
    IF Len(mem) < Capacity THEN Append(mem, t)
    ELSE Append(Tail(mem), t)

\* agent.replay: nothing below batch_size transitions, else one gradient
\* step on the online network
replay(net, mem) ==
    IF Len(mem) < BatchSize THEN net ELSE Trained(net)

\* The checkpoint file: absent, unreadable, or saved parameters
NoFile == [kind |-> "missing", size |-> 0, version |-> 0]
Malformed == [kind |-> "malformed", size |-> 0, version |-> 0]

\* agent.save: the online network's parameters
save(net) == [kind |-> "checkpoint", size |-> net.size,
              version |-> net.version]

\* agent.load succeeds on a checkpoint of the agent's own architecture
loads(f, size) == f.kind = "checkpoint" /\ f.size = size

load(f) == Net(f.size, f.version)

\* random.uniform(0, 2*pi): headings the model draws
InitAngles == {1000, 4000}

NoCall == [op |-> "reset", action |-> -1]

\* ------------------------------------------------------------ reset
\* The values reset assigns; the heading is random.uniform's draw
ResetSpeed == 3

\* Variant: the low-motion counter survives the reset
resetKeepsStationary(angle) ==
    /\ car_x' = (width \div 2) * POS
    /\ car_y' = (height \div 2) * POS
    /\ car_angle' = angle
    /\ car_speed' = ResetSpeed
    /\ car_velocity' = 0
    /\ steps' = 0
    /\ total_distance' = 0
    /\ stationary_steps' = stationary_steps

reset(angle) ==
    /\ car_x' = (width \div 2) * POS
    /\ car_y' = (height \div 2) * POS
    /\ car_angle' = angle
    /\ car_speed' = ResetSpeed
    /\ car_velocity' = 0
    /\ steps' = 0
    /\ total_distance' = 0
    /\ stationary_steps' = 0

\* ArduinoAIController.__init__
InitialReading == 100
InitialSpeed == 3

InitController ==
    /\ ctrl_pc = "created"
    /\ connected = FALSE
    /\ distances = [p \in {"L", "C", "R"} |-> InitialReading]
    /\ current_speed = InitialSpeed
    /\ ctrl_action = -1
    /\ sent = ""

\* CarSimulatorEnv(render=...): generate_obstacles, then reset
InitEnv(layouts, angles) ==
    /\ \E interior \in layouts : obstacles = generate_obstacles(interior)
    /\ car_x = (width \div 2) * POS
    /\ car_y = (height \div 2) * POS
    /\ car_angle \in angles
    /\ car_speed = ResetSpeed
    /\ car_velocity = 0
    /\ steps = 0
    /\ total_distance = 0
    /\ stationary_steps = 0
    /\ state = get_state(car_x, car_y, car_angle, car_speed, obstacles)
    /\ reward = 0
    /\ done = FALSE
    /\ collision = FALSE
    /\ distance_moved = 0
    /\ min_distance = ONE
    /\ lastCall = NoCall

\* No training or evaluation loop runs and no checkpoint is in play
NoLoop ==
    /\ loop_pc = "idle"
    /\ episode = 0
    /\ episodes = 0
    /\ policy = {}
    /\ loop_state = << >>
    /\ loop_action = -1
    /\ act_arg = << >>
    /\ total_reward = 0
    /\ replayed = FALSE
    /\ syncs = {}
    /\ saves = << >>

\* DQNAgent(state_size=4, action_size=size)
NewAgent(size) ==
    /\ act_mode = "none"
    /\ memory = << >>
    /\ epsilon = EpsStart
    /\ online = Net(size, 0)
    /\ target = Net(size, 0)
    /\ loaded = "no"

\* Lines 117-118: a step in render mode opens the window if there is none
OpenScreen(mode, open) == open \/ mode

\* Lines 181-182 and render: a step in render mode draws the fields it has
\* just computed and writes none of them; what is kept here of a picture
\* is the step it shows
Drawn(from, action, to) == [from |-> from, action |-> action, to |-> to]

NoneDrawn == {}

\* A rendered episode starts with no step drawn yet
Undrawn(mode, drawn) == IF mode THEN NoneDrawn ELSE drawn

\* No get_state call of the controller is under way
NotSeen == [p \in {"L", "C", "R"} |-> -1]

\* get_key returned None: no key was waiting
NoKey == "none"

\* No MotorController method has been called directly
NoReturn == [op |-> "none", value |-> "None"]

\* MotorController.__init__ (motor_controller.py lines 33-46)
InitMotors ==
    /\ mc_connected = FALSE
    /\ port_open = FALSE
    /\ left_speed = 0
    /\ right_speed = 0
    /\ mc_servo = 90
    /\ wire = << >>
    /\ returned = NoReturn

\* KeyboardController.__init__ (motor_controller.py lines 218-221)
InitKeyboard ==
    /\ keys_pressed = {}
    /\ key = NoKey
    /\ kb_servo = 90

\* SimpleRobotController.__init__ (arduinoBluetooth.py lines 27-31) and
\* PS5RobotController.__init__ (ArduinoPS5Controller.py lines 16-18, 47);
\* no thread is alive and no port has been touched
InitUi ==
    /\ ui_connected = FALSE
    /\ ui_running = TRUE
    /\ ui_speed = 3
    /\ ui_servo = 90
    /\ ui_reader = FALSE
    /\ last_distance = 0
    /\ ui_sent = ""
    /\ port_log = << >>

\* The other programs build neither of the two: one value throughout
NoUi == ui_pc = "none" /\ InitUi

\* The other programs build no RobotApp: its variables stay at one value
NoApp ==
    /\ app_pc = "none"
    /\ app_running = FALSE
    /\ ticks = 0
    /\ InitKeyboard
    /\ InitMotors

\* CarSimulatorEnv(render=...)   (lines 10, 19-25)
View(render) ==
    /\ render_mode = render
    /\ screen = render
    /\ shown = NoneDrawn
    /\ seen = NotSeen
    /\ snapshots = {}

InitSimulator ==
    /\ program = "simulator"
    /\ View(FALSE)
    /\ NoUi
    /\ NoApp
    /\ InitEnv(InteriorLayouts, InitAngles)
    /\ InitController
    /\ NoLoop
    /\ NewAgent(EvalActionSize)
    /\ file = NoFile

\* ArduinoAIController.__init__ lines 19-21 done: the agent has loaded a
\* checkpoint of its own architecture and its epsilon is 0
LoadedAgent(size) ==
    /\ file = save(Net(size, 1))
    /\ act_mode = "none"
    /\ memory = << >>
    /\ epsilon = 0
    /\ online = load(file)
    /\ target = Net(size, 0)
    /\ loaded = "ok"

\* The deployment run builds no simulator: its variables stay at one value
InitDeploy ==
    /\ program = "deploy"
    /\ View(FALSE)
    /\ NoUi
    /\ NoApp
    /\ InitEnv({InteriorClear}, {1000})
    /\ InitController
    /\ NoLoop
    /\ LoadedAgent(DeployActionSize)

Init == InitSimulator \/ InitDeploy

\* Variant: reset draws a new obstacle layout
ResetRegenerates ==
    /\ program = "simulator"
    /\ done \/ steps = 0
    /\ \E angle \in InitAngles : reset(angle)
    /\ \E interior \in InteriorLayouts :
          obstacles' = generate_obstacles(interior)
    /\ state' = get_state(car_x', car_y', car_angle', car_speed', obstacles')
    /\ done' = FALSE
    /\ shown' = Undrawn(render_mode, shown)
    /\ lastCall' = NoCall
    /\ UNCHANGED << program, appVars, uiVars, readVars,
                    render_mode, screen, reward, collision, distance_moved,
                    min_distance, ctrlVars, loopVars, agentVars >>

\* state = env.reset(); done = False   (train.py 28-30, controller 199-200):
\* both loops reset at the start of an episode, that is after construction
\* or after the previous episode's step returned done
Reset ==
    /\ program = "simulator"
    /\ done \/ steps = 0
    /\ \E angle \in InitAngles : reset(angle)
    /\ state' = get_state(car_x', car_y', car_angle', car_speed', obstacles)
    /\ done' = FALSE
    /\ shown' = Undrawn(render_mode, shown)
    /\ lastCall' = NoCall
    /\ UNCHANGED << program, appVars, uiVars, readVars, render_mode, screen,
                    obstacles, reward, collision, distance_moved,
                    min_distance, ctrlVars, loopVars, agentVars >>

\* ------------------------------------------------------------- step
\* Lines 120-134: the action's effect on heading, speed level and velocity
\* Variant: the two rotations are swapped
StepAngleSwapped(action, angle) ==
    IF action = 1 THEN angle + TurnStep
    ELSE IF action = 2 THEN angle - TurnStep
    ELSE angle

StepAngle(action, angle) ==
    IF action = 1 THEN angle - TurnStep
    ELSE IF action = 2 THEN angle + TurnStep
    ELSE angle

\* Variant: forward moves at the speed level itself
StepVelocityForwardSlow(action, speed, velocity) ==
    IF action = 0 THEN speed * POS
    ELSE IF action = 1 \/ action = 2 THEN (speed * POS) \div 2
    ELSE IF action >= 3 /\ action <= 7 THEN (action - 2) * POS
    ELSE velocity

\* Variant: every index from 3 up selects a speed level
StepSpeedUnbounded(action, speed) ==
    IF action >= 3 THEN action - 2 ELSE speed

\* Variant: the speed actions select one level lower
StepSpeedLower(action, speed) ==
    IF action >= 3 /\ action <= 7 THEN action - 3 ELSE speed

StepSpeed(action, speed) ==
    IF action >= 3 /\ action <= 7 THEN action - 2 ELSE speed

StepVelocity(action, speed, velocity) ==
    IF action = 0 THEN 2 * speed * POS
    ELSE IF action = 1 \/ action = 2 THEN (speed * POS) \div 2
    ELSE IF action >= 3 /\ action <= 7 THEN (action - 2) * POS
    ELSE velocity

\* Lines 137-138: position advanced by the velocity along the heading
\* (unit is the heading's cos or sin in 1/1000; rounded to nearest)
Advance(p, velocity, unit) == p + (velocity * unit + 500) \div 1000

\* Variant: the position is not reverted
SettleNoRevert(hit, old, new) == new

\* Lines 142-143: the position kept after the collision test
Settle(hit, old, new) == IF hit THEN old ELSE new

\* Variant: the distance is measured along the axes
DistanceAlongAxes(x0, y0, x1, y1) ==
    (IF x1 >= x0 THEN x1 - x0 ELSE x0 - x1)
        + (IF y1 >= y0 THEN y1 - y0 ELSE y0 - y1)

\* Line 146
Distance(x0, y0, x1, y1) ==
    Sqrt((x1 - x0) * (x1 - x0) + (y1 - y0) * (y1 - y0))

\* Variant: the counter is never reset
StepStationaryNoReset(moved, count) ==
    IF moved < MoveThreshold THEN count + 1 ELSE count

\* Lines 150-153
StepStationary(moved, count) ==
    IF moved < MoveThreshold THEN count + 1 ELSE 0

Min3(d) == Min2(d[1], Min2(d[2], d[3]))

\* Lines 156-176, in 1/10000
MoveTerm(moved) == moved
ProximityTerm(m) == IF m < Proximity THEN -((Proximity - m) * 50) ELSE 0
CollisionTerm(hit) == IF hit THEN -(10 * RSCALE) ELSE 0
\* Variant: the penalty starts one step early
StationaryTermEarly(count) ==
    IF count >= StationaryPatience THEN -RSCALE ELSE 0

StationaryTerm(count) == IF count > StationaryPatience THEN -RSCALE ELSE 0
SpeedTerm(speed) == IF speed >= 3 THEN RSCALE \div 10 ELSE 0

Reward(moved, m, hit, count, speed) ==
    MoveTerm(moved) + ProximityTerm(m) + CollisionTerm(hit)
        + StationaryTerm(count) + SpeedTerm(speed)

\* Variant: a step that is drawn ends the episode
DoneWhenDrawn(hit, n, count) ==
    hit \/ n > MaxSteps \/ count > MaxStationary \/ render_mode

\* Variant: the step limit is not tested
DoneUnlimited(hit, n, count) == hit \/ count > MaxStationary

\* Variant: the low-motion limit is reached one step early
DoneEarly(hit, n, count) == hit \/ n > MaxSteps \/ count >= MaxStationary

\* Line 179
Done(hit, n, count) == hit \/ n > MaxSteps \/ count > MaxStationary

\* Each local of step is bound once, in the order the code assigns it
step(action) ==
    \E angle1 \in {StepAngle(action, car_angle)} :
    \E speed1 \in {StepSpeed(action, car_speed)} :
    \E vel1 \in {StepVelocity(action, car_speed, car_velocity)} :
    \E new_x \in {Advance(car_x, vel1, Cos(angle1))} :
    \E new_y \in {Advance(car_y, vel1, Sin(angle1))} :
    \E hit \in {check_collision(new_x, new_y, obstacles)} :
    \E x1 \in {Settle(hit, car_x, new_x)} :
    \E y1 \in {Settle(hit, car_y, new_y)} :
    \E moved \in {Distance(car_x, car_y, x1, y1)} :
    \E count1 \in {StepStationary(moved, stationary_steps)} :
    \E dists \in {get_distances(x1, y1, angle1, obstacles)} :
    \E m \in {Min3(dists)} :
        /\ steps' = steps + 1
        /\ car_angle' = angle1
        /\ car_speed' = speed1
        /\ car_velocity' = vel1
        /\ car_x' = x1
        /\ car_y' = y1
        /\ collision' = hit
        /\ distance_moved' = moved
        /\ total_distance' = total_distance + moved
        /\ stationary_steps' = count1
        /\ min_distance' = m
        /\ reward' = Reward(moved, m, hit, count1, speed1)
        /\ done' = Done(hit, steps + 1, count1)
        /\ state' = dists \o << SpeedNorm(speed1) >>
        /\ UNCHANGED << obstacles, render_mode >>
        /\ screen' = OpenScreen(render_mode, screen)
        /\ shown' = IF render_mode
                    THEN shown \cup
                         { Drawn(envVars, action,
                                 << envVars', state', reward', done' >>) }
                    ELSE shown

\* while not done: action = agent.act(state, ...); ... = env.step(action)
\* (train.py 32-37 with the training agent, controller 205-207 with the
\* evaluation agent); episodes of at most MaxLen steps
Step ==
    /\ program = "simulator"
    /\ ~done
    /\ steps < MaxLen
    /\ \E action \in CallerActions :
        /\ step(action)
        /\ lastCall' = [op |-> "step", action |-> action]
    /\ UNCHANGED << program, appVars, uiVars, readVars, ctrlVars, loopVars, agentVars >>

\* The same loops driven by an agent whose choice does not change during
\* the episode, run until step returns done
StepRepeat ==
    /\ program = "simulator"
    /\ ~done
    /\ \E action \in CallerActions :
        /\ steps = 0 \/ action = lastCall.action
        /\ step(action)
        /\ lastCall' = [op |-> "step", action |-> action]
    /\ UNCHANGED << program, appVars, uiVars, readVars, ctrlVars, loopVars, agentVars >>

\* ==================================================== train_agent
\* if episode % 10 == 0   (line 51)
SyncEvery == 10

\* Variant: the target network is synchronised twice as often
SyncDueEvery5(e) == e % 5 = 0

SyncDue(e) == e % SyncEvery = 0

\* if (episode + 1) % 100 == 0   (line 66)
SaveEvery == 100

\* Variant: the periodic save looks at the loop index, not the count
SaveDueAtIndex(e) == e % SaveEvery = 0

SaveDue(e) == (e + 1) % SaveEvery = 0

\* if len(agent.memory) > agent.batch_size   (line 47)
ReplayDue(mem) == Len(mem) > BatchSize

\* The runs of train_agent the model follows: many one-step episodes in
\* the blocked arena, and a few longer ones beside a near obstacle
TrainPolicy == {0, 3}
LongRun == 201
ShortRun == 2

InitTrain ==
    /\ program = "train"
    /\ View(FALSE)
    /\ NoUi
    /\ NoApp
    /\ \/ InitEnv({InteriorBlocked}, InitAngles) /\ episodes = LongRun
       \/ InitEnv({InteriorNear}, InitAngles) /\ episodes = ShortRun
    /\ InitController
    /\ loop_pc = "for"
    /\ episode = 0
    /\ policy = TrainPolicy
    /\ loop_state = << >>
    /\ loop_action = -1
    /\ act_arg = << >>
    /\ total_reward = 0
    /\ replayed = FALSE
    /\ syncs = {}
    /\ saves = << >>
    /\ NewAgent(TrainActionSize)
    /\ file = NoFile

\* train_agent(episodes=500, render_interval=50)   (lines 7, 97)
render_interval == 50

\* for episode in range(episodes): env.render_mode = (episode %
\* render_interval == 0); state = env.reset(); total_reward = 0;
\* done = False   (lines 21-30)
TrainEpisode ==
    /\ program = "train"
    /\ loop_pc = "for"
    /\ episode < episodes
    /\ render_mode' = (episode % render_interval = 0)
    /\ \E angle \in InitAngles : reset(angle)
    /\ state' = get_state(car_x', car_y', car_angle', car_speed', obstacles)
    /\ loop_state' = state'
    /\ total_reward' = 0
    /\ done' = FALSE
    /\ shown' = Undrawn(render_mode', shown)
    /\ lastCall' = NoCall
    /\ loop_pc' = "act"
    /\ UNCHANGED << program, appVars, uiVars, readVars, screen,
                    obstacles, reward, collision, distance_moved,
                    min_distance, ctrlVars, agentVars >>
    /\ UNCHANGED << episode, episodes, policy, loop_action, act_arg,
                    replayed, syncs, saves >>

\* Variant: choosing an action brings the car to rest
TrainActHalting ==
    /\ program = "train"
    /\ loop_pc = "act"
    /\ steps < MaxLen
    /\ loop_action' \in policy
    /\ act_arg' = loop_state
    /\ act_mode' = "training"
    /\ loop_pc' = "step"
    /\ car_velocity' = 0
    /\ UNCHANGED << program, appVars, uiVars, readVars, viewVars, callVars, ctrlVars >>
    /\ UNCHANGED << obstacles, car_x, car_y, car_angle, car_speed, steps,
                    total_distance, stationary_steps >>
    /\ UNCHANGED << episode, episodes, policy, loop_state, total_reward,
                    replayed, syncs, saves >>
    /\ UNCHANGED << memory, epsilon, online, target, file, loaded >>

\* action = agent.act(state, training=True)   (line 34)
TrainAct ==
    /\ program = "train"
    /\ loop_pc = "act"
    /\ steps < MaxLen
    /\ loop_action' \in policy
    /\ act_arg' = loop_state
    /\ act_mode' = "training"
    /\ loop_pc' = "step"
    /\ UNCHANGED << program, appVars, uiVars, readVars, viewVars, envVars, callVars, ctrlVars >>
    /\ UNCHANGED << episode, episodes, policy, loop_state, total_reward,
                    replayed, syncs, saves >>
    /\ UNCHANGED << memory, epsilon, online, target, file, loaded >>

\* next_state, reward, done, _ = env.step(action)   (line 37); the variable
\* state holds what step returned
TrainStep ==
    /\ program = "train"
    /\ loop_pc = "step"
    /\ step(loop_action)
    /\ lastCall' = [op |-> "step", action |-> loop_action]
    /\ loop_pc' = "remember"
    /\ UNCHANGED << program, appVars, uiVars, readVars, ctrlVars, agentVars >>
    /\ UNCHANGED << episode, episodes, policy, loop_state, loop_action,
                    act_arg, total_reward, replayed, syncs, saves >>

\* Variant: the loop advances its state before it remembers
RememberedAdvanced == Transition(state, loop_action, reward, state, done)

\* The arguments of agent.remember(state, action, reward, next_state, done)
Remembered == Transition(loop_state, loop_action, reward, state, done)

\* agent.remember(...); state = next_state; total_reward += reward
\* (lines 40-44)
TrainRemember ==
    /\ program = "train"
    /\ loop_pc = "remember"
    /\ memory' = remember(memory, Remembered)
    /\ loop_state' = state
    /\ total_reward' = total_reward + reward
    /\ loop_pc' = "replay"
    /\ UNCHANGED << program, appVars, uiVars, readVars, viewVars, envVars, callVars, ctrlVars >>
    /\ UNCHANGED << episode, episodes, policy, loop_action, act_arg,
                    replayed, syncs, saves >>
    /\ UNCHANGED << act_mode, epsilon, online, target, file, loaded >>

\* if len(agent.memory) > agent.batch_size: agent.replay()   (lines 47-48),
\* then the while condition (line 32)
TrainReplay ==
    /\ program = "train"
    /\ loop_pc = "replay"
    /\ IF ReplayDue(memory)
       THEN /\ online' = replay(online, memory)
            /\ replayed' = TRUE
       ELSE /\ replayed' = FALSE
            /\ UNCHANGED online
    /\ loop_pc' = IF done THEN "sync" ELSE "act"
    /\ UNCHANGED << program, appVars, uiVars, readVars, viewVars, envVars, callVars, ctrlVars >>
    /\ UNCHANGED << episode, episodes, policy, loop_state, loop_action,
                    act_arg, total_reward, syncs, saves >>
    /\ UNCHANGED << act_mode, memory, epsilon, target, file, loaded >>

\* if episode % 10 == 0: agent.update_target_network()   (lines 51-52)
TrainSync ==
    /\ program = "train"
    /\ loop_pc = "sync"
    /\ IF SyncDue(episode)
       THEN /\ target' = online
            /\ syncs' = syncs \cup {episode}
       ELSE UNCHANGED << target, syncs >>
    /\ loop_pc' = "save"
    /\ UNCHANGED << program, appVars, uiVars, readVars, viewVars, envVars, callVars, ctrlVars >>
    /\ UNCHANGED << episode, episodes, policy, loop_state, loop_action,
                    act_arg, total_reward, replayed, saves >>
    /\ UNCHANGED << act_mode, memory, epsilon, online, file, loaded >>

\* One agent.save call: which file name, after how many episodes
Saved(kind, count) == [kind |-> kind, count |-> count]

\* if (episode + 1) % 100 == 0: agent.save(car_agent_episode_{episode+1})
\* (lines 66-67), then the for loop's next index
TrainSave ==
    /\ program = "train"
    /\ loop_pc = "save"
    /\ IF SaveDue(episode)
       THEN /\ file' = save(online)
            /\ saves' = Append(saves, Saved("episode", episode + 1))
       ELSE UNCHANGED << file, saves >>
    /\ episode' = episode + 1
    /\ loop_pc' = "for"
    /\ UNCHANGED << program, appVars, uiVars, readVars, viewVars, envVars, callVars, ctrlVars >>
    /\ UNCHANGED << episodes, policy, loop_state, loop_action, act_arg,
                    total_reward, replayed, syncs >>
    /\ UNCHANGED << act_mode, memory, epsilon, online, target, loaded >>

\* agent.save('trained_models/car_agent_final.pth')   (line 70)
TrainFinal ==
    /\ program = "train"
    /\ loop_pc = "for"
    /\ episode >= episodes
    /\ file' = save(online)
    /\ saves' = Append(saves, Saved("final", episode))
    /\ loop_pc' = "end"
    /\ UNCHANGED << program, appVars, uiVars, readVars, viewVars, envVars, callVars, ctrlVars >>
    /\ UNCHANGED << episode, episodes, policy, loop_state, loop_action,
                    act_arg, total_reward, replayed, syncs >>
    /\ UNCHANGED << act_mode, memory, epsilon, online, target, loaded >>

NextTrain ==
    \/ TrainEpisode \/ TrainAct \/ TrainStep \/ TrainRemember
    \/ TrainReplay \/ TrainSync \/ TrainSave \/ TrainFinal

\* ======================================================= deployment
\* self.action_map
action_map ==
    [a \in 0..8 |->
        IF a = 0 THEN "W" ELSE IF a = 1 THEN "A" ELSE IF a = 2 THEN "D"
        ELSE IF a = 3 THEN "S" ELSE IF a = 4 THEN "1" ELSE IF a = 5 THEN "2"
        ELSE IF a = 6 THEN "3" ELSE IF a = 7 THEN "4" ELSE "5"]

\* command in '12345', and int(command)
SpeedCommands == {"1", "2", "3", "4", "5"}

IntOf(command) ==
    IF command = "1" THEN 1 ELSE IF command = "2" THEN 2
    ELSE IF command = "3" THEN 3 ELSE IF command = "4" THEN 4 ELSE 5

\* Distances the serial reader can parse (\d+ matches no sign)
Readings == {0, 250}

\* ArduinoAIController.get_state
ctrl_get_state(dist, speed) ==
    << Normalize(dist["L"]), Normalize(dist["C"]), Normalize(dist["R"]),
       SpeedNorm(speed) >>

\* start: find_and_connect succeeds, the reader thread and the control
\* loop begin
Connect ==
    /\ program = "deploy"
    /\ ctrl_pc = "created"
    /\ ctrl_pc' = "control"
    /\ connected' = TRUE
    /\ UNCHANGED << program, appVars, uiVars, readVars, viewVars,
                    envVars, callVars, distances, current_speed,
                    ctrl_action, sent, loopVars, agentVars >>

\* start: find_and_connect fails and start returns
ConnectFail ==
    /\ program = "deploy"
    /\ ctrl_pc = "created"
    /\ ctrl_pc' = "exit"
    /\ UNCHANGED << program, appVars, uiVars, readVars,
                    viewVars, envVars, callVars, connected, distances,
                    current_speed, ctrl_action, sent, loopVars, agentVars >>

\* read_serial_data: one DIST line parsed
ReadSerial ==
    /\ program = "deploy"
    /\ ctrl_pc = "control"
    /\ connected
    /\ \E position \in {"L", "C", "R"} : \E distance \in Readings :
          distances' = [distances EXCEPT ![position] = distance]
    /\ UNCHANGED << program, appVars, uiVars, readVars,
                    viewVars, envVars, callVars, ctrl_pc, connected,
                    current_speed, ctrl_action, sent, loopVars, agentVars >>

\* Variant: the speed is recorded before the write is attempted
send_commandEager(command, ok) ==
    IF connected
    THEN /\ current_speed' = IF command \in SpeedCommands
                             THEN IntOf(command) ELSE current_speed
         /\ IF ok
            THEN sent' = command /\ UNCHANGED connected
            ELSE connected' = FALSE /\ UNCHANGED sent
    ELSE UNCHANGED << sent, current_speed, connected >>

\* send_command; ok is whether serial_port.write returns normally
send_command(command, ok) ==
    IF connected
    THEN IF ok
         THEN /\ sent' = command
              /\ current_speed' = IF command \in SpeedCommands
                                  THEN IntOf(command) ELSE current_speed
              /\ UNCHANGED connected
         ELSE /\ connected' = FALSE
              /\ UNCHANGED << sent, current_speed >>
    ELSE UNCHANGED << sent, current_speed, connected >>

\* Variant: the controller lets the agent explore
DeployActModeTraining == "training"

\* agent.act(state, training=False)   (line 136)
DeployActMode == "greedy"

\* run_ai_control, one action interval: get_state, act, action_map,
\* send_command
ControlTick ==
    /\ program = "deploy"
    /\ ctrl_pc = "control"
    /\ \E action \in act("deploy") : \E ok \in BOOLEAN :
        /\ ctrl_action' = action
        /\ send_command(action_map[action], ok)
    /\ act_mode' = DeployActMode
    /\ UNCHANGED << program, appVars, uiVars, readVars,
                    viewVars, envVars, callVars, ctrl_pc, distances >>
    /\ UNCHANGED << loopVars, memory, epsilon, online, target, file,
                    loaded >>

\* ================================= the controller's two threads
\* get_state's three subscripts of self.distances (lines 96-98) are
\* separate reads; the reader thread started at line 166 may assign
\* self.distances[position] (line 86) between any two of them
ReadOrder == [control |-> "L", readC |-> "C", readR |-> "R"]
NextRead == [control |-> "readC", readC |-> "readR", readR |-> "act"]

\* run_ai_control: get_state reads one of self.distances' entries
GetStateRead ==
    /\ program = "deploy"
    /\ ctrl_pc \in DOMAIN ReadOrder
    /\ seen' = [seen EXCEPT ![ReadOrder[ctrl_pc]] =
                                distances[ReadOrder[ctrl_pc]]]
    /\ snapshots' = IF ctrl_pc = "control" THEN {distances} ELSE snapshots
    /\ ctrl_pc' = NextRead[ctrl_pc]
    /\ UNCHANGED << program, appVars, uiVars, viewVars, envVars, callVars, connected,
                    distances, current_speed, ctrl_action, sent, loopVars,
                    agentVars >>

\* read_serial_data, one DIST line parsed while get_state or the rest of
\* the control loop's iteration is running
ReadSerialDuring ==
    /\ program = "deploy"
    /\ ctrl_pc \in {"readC", "readR", "act"}
    /\ connected
    /\ Cardinality(snapshots) <= MaxUpdates
    /\ \E position \in {"L", "C", "R"} : \E distance \in Readings :
          distances' = [distances EXCEPT ![position] = distance]
    /\ snapshots' = IF ctrl_pc = "act" THEN snapshots
                    ELSE snapshots \cup {distances'}
    /\ UNCHANGED << program, appVars, uiVars, viewVars, envVars, callVars, ctrl_pc,
                    connected, current_speed, ctrl_action, sent, seen,
                    loopVars, agentVars >>

\* run_ai_control, the rest of the iteration: act on the state get_state
\* returned, action_map, send_command
ControlSend ==
    /\ program = "deploy"
    /\ ctrl_pc = "act"
    /\ \E action \in act("deploy") : \E ok \in BOOLEAN :
        /\ ctrl_action' = action
        /\ send_command(action_map[action], ok)
    /\ act_mode' = DeployActMode
    /\ ctrl_pc' = "control"
    /\ seen' = NotSeen
    /\ snapshots' = {}
    /\ UNCHANGED << program, appVars, uiVars, viewVars, envVars, callVars, distances,
                    loopVars, memory, epsilon, online, target, file,
                    loaded >>

NextSerial ==
    \/ Connect \/ ConnectFail \/ ReadSerial \/ GetStateRead
    \/ ReadSerialDuring \/ ControlSend

\* ================================== deployment and evaluation runs
\* What trained_models/car_agent_final.pth can hold when either program
\* starts: nothing, garbage, what train_agent saved (8 outputs), or a
\* checkpoint of a 9-output network
Files ==
    { NoFile, Malformed, save(Net(TrainActionSize, 1)),
      save(Net(DeployActionSize, 1)) }

\* Variant: the constructor carries on after a failed load
AfterLoadIgnored(ok) == "created"

\* ArduinoAIController.__init__ (lines 19-20) and __main__ (222-223): an
\* exception from agent.load leaves the constructor, and start is not
\* reached
AfterLoad(ok) == IF ok THEN "created" ELSE "crashed"

\* controller = ArduinoAIController()   (line 222)
InitDeployRun ==
    /\ program = "deploy"
    /\ View(FALSE)
    /\ NoUi
    /\ NoApp
    /\ InitEnv({InteriorClear}, {1000})
    /\ ctrl_pc = "init"
    /\ connected = FALSE
    /\ distances = [p \in {"L", "C", "R"} |-> InitialReading]
    /\ current_speed = InitialSpeed
    /\ ctrl_action = -1
    /\ sent = ""
    /\ NoLoop
    /\ NewAgent(DeployActionSize)
    /\ file \in Files

\* self.agent.load(model_path); self.agent.epsilon = 0   (lines 20-21)
DeployInit ==
    /\ program = "deploy"
    /\ ctrl_pc = "init"
    /\ \E ok \in {loads(file, online.size)} :
        /\ ctrl_pc' = AfterLoad(ok)
        /\ IF ok
           THEN /\ online' = load(file)
                /\ loaded' = "ok"
                /\ epsilon' = 0
           ELSE /\ loaded' = "failed"
                /\ UNCHANGED << online, epsilon >>
    /\ UNCHANGED << program, appVars, uiVars, readVars,
                    viewVars, envVars, callVars, connected, distances,
                    current_speed, ctrl_action, sent, loopVars >>
    /\ UNCHANGED << act_mode, memory, target, file >>

\* test_model_in_simulator: env = CarSimulatorEnv(render=True);
\* agent = DQNAgent(state_size=4, action_size=9)   (lines 188-189)
InitEval ==
    /\ program = "eval"
    /\ View(TRUE)
    /\ NoUi
    /\ NoApp
    /\ InitEnv(InteriorLayouts, InitAngles)
    /\ InitController
    /\ loop_pc = "load"
    /\ episode = 0
    /\ episodes = EvalEpisodes
    /\ policy = act("eval")
    /\ loop_state = << >>
    /\ loop_action = -1
    /\ act_arg = << >>
    /\ total_reward = 0
    /\ replayed = FALSE
    /\ syncs = {}
    /\ saves = << >>
    /\ NewAgent(EvalActionSize)
    /\ file \in Files

\* try: agent.load(...); agent.epsilon = 0; except: return  (lines 191-196)
EvalLoad ==
    /\ program = "eval"
    /\ loop_pc = "load"
    /\ IF loads(file, online.size)
       THEN /\ online' = load(file)
            /\ loaded' = "ok"
            /\ epsilon' = 0
            /\ loop_pc' = "for"
       ELSE /\ loaded' = "failed"
            /\ loop_pc' = "end"
            /\ UNCHANGED << online, epsilon >>
    /\ UNCHANGED << program, appVars, uiVars, readVars, viewVars, envVars, callVars, ctrlVars >>
    /\ UNCHANGED << episode, episodes, policy, loop_state, loop_action,
                    act_arg, total_reward, replayed, syncs, saves >>
    /\ UNCHANGED << act_mode, memory, target, file >>

\* for episode in range(5): state = env.reset(); done = False;
\* total_reward = 0   (lines 198-201)
EvalEpisode ==
    /\ program = "eval"
    /\ loop_pc = "for"
    /\ episode < episodes
    /\ \E angle \in InitAngles : reset(angle)
    /\ state' = get_state(car_x', car_y', car_angle', car_speed', obstacles)
    /\ loop_state' = state'
    /\ total_reward' = 0
    /\ done' = FALSE
    /\ shown' = Undrawn(render_mode, shown)
    /\ lastCall' = NoCall
    /\ loop_pc' = "act"
    /\ UNCHANGED << program, appVars, uiVars, readVars, render_mode, screen,
                    obstacles, reward, collision, distance_moved,
                    min_distance, ctrlVars, agentVars >>
    /\ UNCHANGED << episode, episodes, policy, loop_action, act_arg,
                    replayed, syncs, saves >>

\* agent.act(state, training=False)   (line 206)
EvalActMode == "greedy"

\* action = agent.act(state, training=False); state, reward, done, _ =
\* env.step(action); total_reward += reward   (lines 205-208); when done,
\* the for loop's next index
EvalStep ==
    /\ program = "eval"
    /\ loop_pc = "act"
    /\ steps < MaxLen
    /\ \E action \in policy :
        /\ step(action)
        /\ lastCall' = [op |-> "step", action |-> action]
        /\ loop_action' = action
    /\ act_arg' = loop_state
    /\ act_mode' = EvalActMode
    /\ loop_state' = state'
    /\ total_reward' = total_reward + reward'
    /\ IF done'
       THEN episode' = episode + 1 /\ loop_pc' = "for"
       ELSE UNCHANGED << episode, loop_pc >>
    /\ UNCHANGED << program, appVars, uiVars, readVars,
                    ctrlVars, episodes, policy, replayed, syncs,
                    saves >>
    /\ UNCHANGED << memory, epsilon, online, target, file, loaded >>

\* print("Simulator test complete!")   (line 212)
EvalEnd ==
    /\ program = "eval"
    /\ loop_pc = "for"
    /\ episode >= episodes
    /\ loop_pc' = "end"
    /\ UNCHANGED << program, appVars, uiVars, readVars, viewVars,
                    envVars, callVars, ctrlVars, agentVars >>
    /\ UNCHANGED << episode, episodes, policy, loop_state, loop_action,
                    act_arg, total_reward, replayed, syncs, saves >>

InitRun == InitDeployRun \/ InitEval

NextRun ==
    \/ DeployInit \/ Connect \/ ConnectFail \/ ReadSerial \/ ControlTick
    \/ EvalLoad \/ EvalEpisode \/ EvalStep \/ EvalEnd

\* ============================ RobotApp with the keyboard (motor_controller)
\* The keys get_key can return, lower-cased: the movement keys, the servo
\* keys, five keys with no meaning, ESC ('\x1b') and Ctrl+C ('\x03')
Esc == "esc"
CtrlC == "ctrl-c"
MoveKeys == {"w", "a", "s", "d"}
ServoKeys == {"q", "e", "r"}
OtherKeys == {"x", "y", "z", "u", "v"}
AppKeys == MoveKeys \cup ServoKeys \cup OtherKeys \cup {Esc, CtrlC}

\* KeyboardController.update (lines 239-250): ESC returns before the key is
\* added and before the set is pruned
update(keys, k) ==
    IF k = Esc THEN keys
    ELSE LET added == IF k = NoKey THEN keys ELSE keys \cup {k}
         IN IF Cardinality(added) > 5 THEN {} ELSE added

\* int(255 * self.speed_multiplier), speed_multiplier = 0.8   (line 256)
base_speed == (255 * 8) \div 10

\* Python's floor division by 2
FloorHalf(n) == IF n >= 0 THEN n \div 2 ELSE -((1 - n) \div 2)

\* int(n * 0.5): towards zero
TruncHalf(n) == IF n >= 0 THEN n \div 2 ELSE -((-n) \div 2)

\* get_motor_speeds, lines 261-281: the pair (left, right)
KeySpeeds(keys) ==
    LET straight == IF "w" \in keys THEN << base_speed, base_speed >>
                    ELSE IF "s" \in keys THEN << -base_speed, -base_speed >>
                    ELSE << 0, 0 >>
        left == straight[1]
        right == straight[2]
    IN IF "a" \in keys
       THEN IF left = 0
            THEN << FloorHalf(-base_speed), FloorHalf(base_speed) >>
            ELSE << TruncHalf(left), right >>
       ELSE IF "d" \in keys
       THEN IF right = 0
            THEN << FloorHalf(base_speed), FloorHalf(-base_speed) >>
            ELSE << left, TruncHalf(right) >>
       ELSE << left, right >>

\* get_servo_angle, lines 290-302: the key it consumes (NoKey: returns None)
ServoKey(keys) ==
    IF "q" \in keys THEN "q"
    ELSE IF "e" \in keys THEN "e"
    ELSE IF "r" \in keys THEN "r"
    ELSE NoKey

ServoStep == 10
ServoMax == 180
ServoCentre == 90

KeyServo(angle, k) ==
    IF k = "q" THEN IF angle - ServoStep > 0 THEN angle - ServoStep ELSE 0
    ELSE IF k = "e"
    THEN IF angle + ServoStep < ServoMax THEN angle + ServoStep ELSE ServoMax
    ELSE IF k = "r" THEN ServoCentre
    ELSE angle

\* should_stop, lines 304-306
should_stop(keys) == Esc \in keys \/ CtrlC \in keys

\* The MotorController's fields as one value
Motors ==
    [connected |-> mc_connected, open |-> port_open, left |-> left_speed,
     right |-> right_speed, servo |-> mc_servo, wire |-> wire]

Becomes(m) ==
    /\ mc_connected' = m.connected
    /\ port_open' = m.open
    /\ left_speed' = m.left
    /\ right_speed' = m.right
    /\ mc_servo' = m.servo
    /\ wire' = m.wire

Clamp(lo, hi, v) == IF v < lo THEN lo ELSE IF v > hi THEN hi ELSE v

MotorMax == 255

\* Variant: the speeds are stored as given
set_motorsUnclamped(m, l, r, ok) ==
    IF ~m.connected THEN m
    ELSE [m EXCEPT !.left = l, !.right = r, !.connected = ok,
                   !.wire = IF ok THEN Append(@, << "L", l, "R", r >>)
                            ELSE @]

\* MotorController.set_motors (lines 103-123); ok: whether the write succeeds
set_motors(m, l, r, ok) ==
    IF ~m.connected THEN m
    ELSE LET cl == Clamp(-MotorMax, MotorMax, l)
             cr == Clamp(-MotorMax, MotorMax, r)
         IN [m EXCEPT !.left = cl, !.right = cr, !.connected = ok,
                      !.wire = IF ok THEN Append(@, << "L", cl, "R", cr >>)
                               ELSE @]

\* MotorController.set_servo (lines 125-139)
set_servo(m, angle, ok) ==
    IF ~m.connected THEN m
    ELSE LET ca == Clamp(0, ServoMax, angle)
         IN [m EXCEPT !.servo = ca, !.connected = ok,
                      !.wire = IF ok THEN Append(@, << "S", ca >>) ELSE @]

\* What a shutdown does to a port: a write call (ok: whether it put the
\* command on the port) or the close call
Write(command, ok) == [ev |-> "write", cmd |-> command, ok |-> ok]
Close == [ev |-> "close", cmd |-> "", ok |-> TRUE]

\* MotorController.disconnect (lines 94-101): the motors are stopped, then
\* the port is closed, whatever became of the write
disconnect(m, ok) ==
    IF m.connected /\ m.open
    THEN [set_motors(m, 0, 0, ok) EXCEPT !.open = FALSE, !.connected = FALSE]
    ELSE m

\* Variant: the port is closed before the motors are stopped
disconnectLogCloseFirst(m, ok) ==
    IF m.connected /\ m.open
    THEN << Close, Write("L:0,R:0", ok) >>
    ELSE << >>

\* The port calls disconnect makes, in order (lines 96-100)
disconnectLog(m, ok) ==
    IF m.connected /\ m.open
    THEN << Write("L:0,R:0", ok), Close >>
    ELSE << >>

\* RobotApp() and KeyboardController/MotorController as constructed
InitApp ==
    /\ program = "app"
    /\ View(FALSE)
    /\ NoUi
    /\ InitEnv({InteriorClear}, {1000})
    /\ InitController
    /\ NoLoop
    /\ NewAgent(EvalActionSize)
    /\ file = NoFile
    /\ app_pc = "start"
    /\ app_running = TRUE
    /\ ticks = 0
    /\ InitKeyboard
    /\ InitMotors

appFrame == << envVars, callVars, ctrlVars, loopVars, agentVars, viewVars,
               readVars, returned, uiState >>
loopFrame == << appFrame, ticks >>

\* run, lines 452-460: connect succeeds, setup_input defaults to the keyboard
AppConnect ==
    /\ program = "app"
    /\ app_pc = "start"
    /\ app_pc' = "loop"
    /\ mc_connected' = TRUE
    /\ port_open' = TRUE
    /\ UNCHANGED << program, port_log, loopFrame, app_running, keys_pressed, key,
                    kb_servo, left_speed, right_speed, mc_servo, wire >>

\* run, lines 452-454: connect fails and run returns
AppConnectFail ==
    /\ program = "app"
    /\ app_pc = "start"
    /\ app_pc' = "done"
    /\ UNCHANGED << program, port_log, loopFrame, app_running, keys_pressed, key,
                    kb_servo, mc_connected, port_open, left_speed,
                    right_speed, mc_servo, wire >>

\* One iteration of the control loop, lines 466-487
AppIterate ==
    /\ program = "app"
    /\ app_pc = "loop"
    /\ app_running
    /\ ticks < MaxTicks
    /\ ticks' = ticks + 1
    /\ \E k \in AppKeys \cup {NoKey}, ok1 \in BOOLEAN, ok2 \in BOOLEAN :
         LET updated == update(keys_pressed, k)
             speeds == KeySpeeds(updated)
             moved == updated \ MoveKeys
             sk == ServoKey(moved)
             angle == KeyServo(kb_servo, sk)
             left == moved \ {sk}
             fresh == [Motors EXCEPT !.wire = << >>]
             driven == set_motors(fresh, speeds[1], speeds[2], ok1)
             turned == IF sk = NoKey THEN driven
                       ELSE set_servo(driven, angle, ok2)
         IN /\ key' = k
            /\ keys_pressed' = left
            /\ kb_servo' = angle
            /\ Becomes(turned)
            /\ app_running' = ~should_stop(left)
    /\ UNCHANGED << program, port_log, appFrame, app_pc >>

\* The loop ends (line 466) and the finally clause disconnects (line 495)
AppExit ==
    /\ program = "app"
    /\ app_pc = "loop"
    /\ ~app_running
    /\ app_pc' = "done"
    /\ \E ok \in BOOLEAN :
         /\ Becomes(disconnect([Motors EXCEPT !.wire = << >>], ok))
         /\ port_log' = disconnectLog(Motors, ok)
    /\ UNCHANGED << program, loopFrame, app_running, keys_pressed, key,
                    kb_servo >>

\* KeyboardInterrupt inside the loop (lines 489-495)
AppInterrupt ==
    /\ program = "app"
    /\ app_pc = "loop"
    /\ app_running
    /\ app_pc' = "done"
    /\ \E ok \in BOOLEAN :
         /\ Becomes(disconnect([Motors EXCEPT !.wire = << >>], ok))
         /\ port_log' = disconnectLog(Motors, ok)
    /\ UNCHANGED << program, loopFrame, app_running, keys_pressed, key,
                    kb_servo >>

NextApp == AppConnect \/ AppConnectFail \/ AppIterate \/ AppExit
           \/ AppInterrupt

\* ================================ MotorController called directly
\* Arguments of set_motors and set_servo: inside, on and beyond the limits
SpeedArgs == {-300, -255, 0, 100, 255, 256}
AngleArgs == {-10, 0, 90, 180, 200}

\* What set_motors and set_servo return (lines 105-106, 119-123, 127-128,
\* 135-139)
Returns(m, ok) == IF m.connected /\ ok THEN "True" ELSE "False"

\* MotorController.emergency_stop (lines 150-158); it has no return statement
emergency_stop(m, ok) ==
    IF ~m.connected THEN m
    ELSE IF ok THEN [m EXCEPT !.left = 0, !.right = 0,
                              !.wire = Append(@, << "STOP" >>)]
    ELSE [m EXCEPT !.connected = FALSE]

\* A MotorController used on its own, as constructed
InitMotorsRun ==
    /\ program = "motors"
    /\ View(FALSE)
    /\ NoUi
    /\ InitEnv({InteriorClear}, {1000})
    /\ InitController
    /\ NoLoop
    /\ NewAgent(EvalActionSize)
    /\ file = NoFile
    /\ app_pc = "none"
    /\ app_running = FALSE
    /\ ticks = 0
    /\ InitKeyboard
    /\ InitMotors

apiFrame == << envVars, callVars, ctrlVars, loopVars, agentVars, viewVars,
               readVars, app_pc, app_running, keys_pressed, key, kb_servo,
               ticks, uiVars >>

\* connect() succeeds (lines 78-86)
McConnect ==
    /\ program = "motors"
    /\ ~mc_connected
    /\ mc_connected' = TRUE
    /\ port_open' = TRUE
    /\ UNCHANGED << program, apiFrame, left_speed, right_speed, mc_servo,
                    returned, wire >>

CallSetMotors ==
    /\ program = "motors"
    /\ \E l \in SpeedArgs, r \in SpeedArgs, ok \in BOOLEAN :
         /\ Becomes(set_motors([Motors EXCEPT !.wire = << >>], l, r, ok))
         /\ returned' = [op |-> "set_motors", value |-> Returns(Motors, ok)]
    /\ UNCHANGED << program, apiFrame >>

CallSetServo ==
    /\ program = "motors"
    /\ \E angle \in AngleArgs, ok \in BOOLEAN :
         /\ Becomes(set_servo([Motors EXCEPT !.wire = << >>], angle, ok))
         /\ returned' = [op |-> "set_servo", value |-> Returns(Motors, ok)]
    /\ UNCHANGED << program, apiFrame >>

CallEmergencyStop ==
    /\ program = "motors"
    /\ \E ok \in BOOLEAN :
         Becomes(emergency_stop([Motors EXCEPT !.wire = << >>], ok))
    /\ returned' = [op |-> "emergency_stop", value |-> "None"]
    /\ UNCHANGED << program, apiFrame >>

NextMotors == McConnect \/ CallSetMotors \/ CallSetServo \/ CallEmergencyStop

\* =================== SimpleRobotController (arduinoBluetooth.py)
\* The keys of run's loop: one of each branch, and a key with no branch
SimpleKeys == {"w", " ", "1", "5", "h", "f", "z", Esc, CtrlC, NoKey}

\* The command a key sends (lines 194-233); "": the key sends none
SimpleCommand(k) ==
    IF k = "w" THEN "W" ELSE IF k = " " THEN "X"
    ELSE IF k \in SpeedCommands THEN k
    ELSE IF k = "h" THEN "H" ELSE ""

\* The DIST lines read_serial parses: position and distance
DistLines == {<< "L90", 25 >>, << "C90", 0 >>}

\* The port calls of the cleanup: if connected, send_command('X'), then
\* close (lines 259-261, and 275-277 in the KeyboardInterrupt handler)
cleanupLog(linked, ok) ==
    IF linked THEN << Write("X", ok), Close >> ELSE << >>

simpleFrame == << envVars, callVars, ctrlVars, loopVars, agentVars, viewVars,
                 readVars, appVars, ui_servo >>

InitSimple ==
    /\ program = "simple"
    /\ View(FALSE)
    /\ NoApp
    /\ InitEnv({InteriorClear}, {1000})
    /\ InitController
    /\ NoLoop
    /\ NewAgent(EvalActionSize)
    /\ file = NoFile
    /\ ui_pc = "start"
    /\ InitUi

\* run, lines 169-177: connect succeeds or not; the reader thread is
\* started if it did
SimpleStart ==
    /\ program = "simple"
    /\ ui_pc = "start"
    /\ \E ok \in BOOLEAN :
         /\ ui_connected' = ok
         /\ ui_reader' = ok
    /\ ui_pc' = "loop"
    /\ UNCHANGED << program, simpleFrame, ui_running, ui_speed,
                    last_distance, ui_sent, port_log >>

\* send_command (lines 105-114) as called from the loop
SimpleSend(cmd, ok) ==
    IF ui_connected
    THEN IF ok THEN ui_sent' = cmd /\ UNCHANGED ui_connected
         ELSE ui_connected' = FALSE /\ UNCHANGED ui_sent
    ELSE UNCHANGED << ui_sent, ui_connected >>

\* One pass of the loop, lines 188-255
SimpleKey ==
    /\ program = "simple"
    /\ ui_pc = "loop"
    /\ ui_running
    /\ \E k \in SimpleKeys, ok \in BOOLEAN :
         /\ ui_speed' = IF k \in SpeedCommands THEN IntOf(k) ELSE ui_speed
         /\ ui_running' = (k \notin {Esc, CtrlC})
         /\ IF SimpleCommand(k) # "" THEN SimpleSend(SimpleCommand(k), ok)
            ELSE IF k = "f" /\ ~ui_connected
            THEN ui_connected' = ok /\ UNCHANGED ui_sent
            ELSE UNCHANGED << ui_sent, ui_connected >>
    /\ UNCHANGED << program, simpleFrame, ui_pc, ui_reader, last_distance,
                    port_log >>

\* read_serial, one pass of its loop with a DIST line waiting (119-128)
SimpleRead ==
    /\ program = "simple"
    /\ ui_reader
    /\ ui_running /\ ui_connected
    /\ last_distance' \in DistLines
    /\ UNCHANGED << program, simpleFrame, ui_pc, ui_connected, ui_running,
                    ui_speed, ui_reader, ui_sent, port_log >>

\* read_serial finds its loop condition false (line 118) and returns
SimpleReaderEnds ==
    /\ program = "simple"
    /\ ui_reader
    /\ ~(ui_running /\ ui_connected)
    /\ ui_reader' = FALSE
    /\ UNCHANGED << program, simpleFrame, ui_pc, ui_connected, ui_running,
                    ui_speed, last_distance, ui_sent, port_log >>

\* The cleanup after the loop (lines 257-262), or the KeyboardInterrupt
\* handler of __main__ (lines 273-277) when run is interrupted in its loop
SimpleCleanup ==
    /\ program = "simple"
    /\ ui_pc = "loop"
    /\ \E ok \in BOOLEAN :
         /\ SimpleSend("X", ok)
         /\ port_log' = cleanupLog(ui_connected, ok)
    /\ ui_pc' = "done"
    /\ UNCHANGED << program, simpleFrame, ui_running, ui_speed, ui_reader,
                    last_distance >>

NextSimple ==
    \/ SimpleStart \/ SimpleKey \/ SimpleRead \/ SimpleReaderEnds
    \/ SimpleCleanup

\* =================== PS5RobotController (ArduinoPS5Controller.py)
\* Stick and trigger positions in 1/100: at rest, inside the deadzone, full
PadAxis == {-100, 0, 10, 100}
PadButtons == {"none", "x", "square", "l1", "options", "ps", "l1-up"}

\* int(): towards zero, of n / d with d > 0
IntDiv(n, d) == IF n >= 0 THEN n \div d ELSE -((-n) \div d)

\* Lines 137-139: the deadzone 0.15
Dead(v) == IF Abs(v) < 15 THEN 0 ELSE v

\* Lines 142-157: the pair of motor speeds from the left stick (lx, ly) and
\* the R2 trigger; forward = ly * 255, turn = lx * 255 * 0.7,
\* boost = 1 + r2_value * 0.5 with r2_value = (r2 + 1) / 2 if above 0.1
DriveSpeeds(lx, ly, r2) ==
    LET forward == Dead(ly) * 255 * 10
        turn == Dead(lx) * 255 * 7
        left == IntDiv(forward + turn, 1000)
        right == IntDiv(forward - turn, 1000)
        boosted(v) == IF (r2 + 100) > 20
                      THEN IntDiv(v * (400 + (r2 + 100)), 400) ELSE v
    IN << Clamp(-255, 255, boosted(left)), Clamp(-255, 255, boosted(right)) >>

\* The controller's link: its connected flag and the last command written
PadLink == [connected |-> ui_connected, sent |-> ui_sent]

\* send_motor_command (lines 109-117)
send_motor_command(link, l, r, ok) ==
    IF ~link.connected THEN link
    ELSE IF ok THEN [link EXCEPT !.sent = << "M", l, r >>]
    ELSE [link EXCEPT !.connected = FALSE]

\* send_command (lines 119-125) as every caller uses it, with a bytes
\* argument: cmd.encode() raises AttributeError inside the try, nothing
\* reaches the port and connected is cleared
pad_send_command(link) ==
    IF ~link.connected THEN link ELSE [link EXCEPT !.connected = FALSE]

\* handle_button_press and handle_button_release (lines 175-215)
PadButton(link, b, ok) ==
    IF b \in {"x", "ps"}
    THEN pad_send_command(IF b = "ps"
                          THEN send_motor_command(link, 0, 0, ok) ELSE link)
    ELSE IF b \in {"square", "l1-up"} THEN send_motor_command(link, 0, 0, ok)
    ELSE IF b = "l1" THEN send_motor_command(link, -200, 200, ok)
    ELSE link

\* The port calls of run's cleanup (lines 273-276): the motor command, then
\* close; send_command(b'X') raises before it reaches the port
padCleanupLog(linked, ok) ==
    IF linked THEN << Write("M,0,0", ok), Close >> ELSE << >>

padFrame == << envVars, callVars, ctrlVars, loopVars, agentVars, viewVars,
              readVars, appVars, ui_speed, ui_reader, last_distance >>

InitPad ==
    /\ program = "pad"
    /\ View(FALSE)
    /\ NoApp
    /\ InitEnv({InteriorClear}, {1000})
    /\ InitController
    /\ NoLoop
    /\ NewAgent(EvalActionSize)
    /\ file = NoFile
    /\ ui_pc = "start"
    /\ InitUi

\* run, lines 242-249: the gamepad is found; connect_arduino succeeds or the
\* controller runs in demo mode
PadStart ==
    /\ program = "pad"
    /\ ui_pc = "start"
    /\ ui_connected' \in BOOLEAN
    /\ ui_pc' = "loop"
    /\ UNCHANGED << program, padFrame, ui_running, ui_servo, ui_sent,
                    port_log >>

\* run, lines 242-243: no gamepad, run returns
PadStartFail ==
    /\ program = "pad"
    /\ ui_pc = "start"
    /\ ui_pc' = "done"
    /\ UNCHANGED << program, padFrame, ui_connected, ui_running, ui_servo,
                    ui_sent, port_log >>

\* One pass of the loop: process_controller_input (lines 127-173)
PadFrame ==
    /\ program = "pad"
    /\ ui_pc = "loop"
    /\ ui_running
    /\ \E lx \in PadAxis, ly \in PadAxis, rx \in PadAxis, r2 \in {-100, 100},
          b \in PadButtons, ok \in BOOLEAN :
         LET speeds == DriveSpeeds(lx, ly, r2)
             driven == send_motor_command(PadLink, speeds[1], speeds[2], ok)
             moved == Abs(Dead(rx)) > 15
             looked == IF moved THEN pad_send_command(driven) ELSE driven
             pressed == PadButton(looked, b, ok)
         IN /\ ui_servo' = IF moved
                           THEN Clamp(0, 180, 90 + IntDiv(rx * 90, 100))
                           ELSE ui_servo
            /\ ui_connected' = pressed.connected
            /\ ui_sent' = pressed.sent
            /\ ui_running' = (b # "options")
    /\ UNCHANGED << program, padFrame, ui_pc, port_log >>

\* The loop ends, by Options or by KeyboardInterrupt (lines 255, 268-269),
\* and run cleans up (lines 271-277)
PadCleanup ==
    /\ program = "pad"
    /\ ui_pc = "loop"
    /\ \E ok \in BOOLEAN :
         /\ ui_sent' = send_motor_command(PadLink, 0, 0, ok).sent
         /\ port_log' = padCleanupLog(ui_connected, ok)
    /\ ui_connected' = FALSE
    /\ ui_pc' = "done"
    /\ UNCHANGED << program, padFrame, ui_running, ui_servo >>

\* ============ ArduinoAIController.start: the end of the run
\* The port calls of start's cleanup (lines 177-179)
stopLog(linked, ok) ==
    IF linked THEN << Write("X", ok), Close >> ELSE << >>

\* run_ai_control is interrupted (lines 154-155), start cleans up (175-180)
ControlStop ==
    /\ program = "deploy"
    /\ ctrl_pc = "control"
    /\ ctrl_pc' = "exit"
    /\ \E ok \in BOOLEAN :
         /\ send_command("X", ok)
         /\ port_log' = stopLog(connected, ok)
    /\ UNCHANGED << program, appVars, uiState, readVars, viewVars, envVars,
                    callVars, distances, ctrl_action, loopVars, agentVars >>

\* ============================ the four front-ends, from start to shutdown
InitShutdown == InitDeploy \/ InitSimple \/ InitApp \/ InitPad

NextShutdown ==
    \/ Connect \/ ConnectFail \/ ReadSerial \/ ControlTick \/ ControlStop
    \/ NextSimple
    \/ NextApp
    \/ PadStart \/ PadStartFail \/ PadFrame \/ PadCleanup

\* ============================================================ behaviours
Next == Reset \/ Step \/ Connect \/ ConnectFail \/ ReadSerial \/ ControlTick

Spec == Init /\ [][Next]_vars

\* Episodes run to termination under a constant choice of action
NextLong == Reset \/ StepRepeat

SpecLong == InitSimulator /\ [][NextLong]_vars

\* train_agent from its first line to its last
SpecTrain == InitTrain /\ [][NextTrain]_vars

\* The controller from its constructor on, and test_model_in_simulator
SpecRun == InitRun /\ [][NextRun]_vars

\* The controller's control loop and serial reader, read by read
SpecSerial == InitDeploy /\ [][NextSerial]_vars

\* RobotApp.run with the keyboard controller
SpecApp == InitApp /\ [][NextApp]_vars

\* Any sequence of direct MotorController calls
SpecMotors == InitMotorsRun /\ [][NextMotors]_vars

\* SimpleRobotController.run with its reader thread
SpecSimple == InitSimple /\ [][NextSimple]_vars

\* Every front-end that drives a serial port
SpecShutdown == InitShutdown /\ [][NextShutdown]_vars

\* ============================================================== claims
\* What an action index means to step (lines 122-134) and what the command
\* the controller sends for it means (action_map's comments, lines 30-38)
Motion(kind, level) == [kind |-> kind, level |-> level]

StepMotion(action) ==
    IF action = 0 THEN Motion("forward", 0)
    ELSE IF action = 1 THEN Motion("rotate-left", 0)
    ELSE IF action = 2 THEN Motion("rotate-right", 0)
    ELSE IF action >= 3 /\ action <= 7 THEN Motion("speed", action - 2)
    ELSE Motion("none", 0)

CommandMotion(command) ==
    IF command = "W" THEN Motion("forward", 0)
    ELSE IF command = "A" THEN Motion("rotate-left", 0)
    ELSE IF command = "D" THEN Motion("rotate-right", 0)
    ELSE IF command = "S" THEN Motion("backward", 0)
    ELSE IF command \in SpeedCommands THEN Motion("speed", IntOf(command))
    ELSE Motion("none", 0)

AfterStep == lastCall.op = "step"

InUnit(v) == \A i \in DOMAIN v : v[i] >= 0 /\ v[i] <= ONE

\* C1: the done flag a step returns is true exactly when the step collided,
\* or the step count after the increment exceeds 1000, or the low-motion
\* counter after the update exceeds 50.
C1_DoneIff ==
    AfterStep =>
        (done <=> (collision \/ steps > 1000 \/ stationary_steps > 50))

C1_Witness ==
    AfterStep /\ done /\ ~collision /\ steps > 1000 /\ stationary_steps <= 50

\* C2: a step whose updated position collides leaves the car where it was
\* before the step, and still reports the collision through done.
C2_NoPenetration ==
    [][ (lastCall'.op = "step" /\ collision')
          => (car_x' = car_x /\ car_y' = car_y /\ done') ]_vars

C2_Witness ==
    AfterStep /\ collision /\ done /\ steps > 1 /\ total_distance > 0

\* C3: every component of the state vector the simulator returned, and of
\* the state vector the deployment controller builds from its readings and
\* tracked speed, lies in [0,1].
C3_StateInUnit ==
    /\ Len(state) = 4
    /\ InUnit(state)
    /\ InUnit(ctrl_get_state(distances, current_speed))

C3_Witness ==
    /\ program = "deploy"
    /\ distances["C"] > 200
    /\ distances["L"] = 0
    /\ sent = "5"
    /\ current_speed = 5

\* C4: the simulator's speed level is an integer in 1..5 after any
\* sequence of reset and step calls.
C4_SpeedLevel == car_speed \in 1..5

C4_Witness ==
    AfterStep /\ lastCall.action \notin EnvActions /\ car_speed = 5

\* C5: every action index passed to step is one step has a branch for.
C5_ActionsInRange == AfterStep => lastCall.action \in EnvActions

\* C6: a step with an action index outside the enumerated range does not
\* advance the simulation.
C6_InvalidFailsFast ==
    [][ (lastCall'.op = "step" /\ lastCall'.action \notin EnvActions)
          => UNCHANGED envVars ]_vars

\* C7: the command the controller sends for an action index denotes the
\* motion step gives that index.
C7_SameMotion ==
    (program = "deploy" /\ ctrl_action >= 0 /\ sent = action_map[ctrl_action])
        => CommandMotion(sent) = StepMotion(ctrl_action)

\* C8: the reward of a step is the sum of five terms: 0.1 x distance
\* moved; -5 x (0.2 - m) when the least normalised reading m is below 0.2;
\* -10 on collision; -1 when the low-motion counter exceeds 10; +0.1 when
\* the speed level is at least 3 (rewards in 1/10000, m in 1/1000).
C8_RewardTerms ==
    AfterStep =>
        LET m == Min3(state)
            near == IF m < 200 THEN 50 * (200 - m) ELSE 0
        IN  /\ reward = distance_moved - near
                        - (IF collision THEN 100000 ELSE 0)
                        - (IF stationary_steps > 10 THEN 10000 ELSE 0)
                        + (IF car_speed >= 3 THEN 1000 ELSE 0)
            /\ (~collision /\ stationary_steps <= 10 /\ car_speed < 3)
                  => reward = distance_moved - near

C8_Witness ==
    /\ AfterStep /\ ~collision /\ stationary_steps <= 10 /\ car_speed < 3
    /\ Min3(state) < 200 /\ distance_moved > 0

\* C9: each of the three distances the simulator measured from the current
\* pose is in 1..200; below 200 it is the first increment at which the ray
\* point leaves the arena or touches an obstacle; it is 200 when no
\* increment within range does.
RayOf(i) == state[i] \div 5

HitAt(i, d) ==
    RayHit(car_x, car_y, Cos(car_angle + AngleOffsets[i]),
           Sin(car_angle + AngleOffsets[i]), d, obstacles)

C9_CastRay ==
    program = "simulator" => \A i \in 1..3 :
        /\ RayOf(i) \in 1..200
        /\ state[i] = 5 * RayOf(i)
        /\ RayOf(i) < 200 =>
              /\ HitAt(i, RayOf(i))
              /\ \A e \in 1..(RayOf(i) - 1) : ~HitAt(i, e)
        /\ (\A d \in 1..199 : ~HitAt(i, d)) => RayOf(i) = 200

C9_Witness ==
    /\ AfterStep
    /\ \E i \in 1..3 : state[i] > 5 /\ state[i] < ONE
    /\ \E j \in 1..3 : state[j] = ONE

\* C10: after reset the car is at the arena centre with a heading in
\* [0, 2*pi), speed level 3, and step count, total distance and low-motion
\* counter all 0.
C10_ResetState ==
    lastCall.op = "reset" =>
        /\ car_x = 400 * POS /\ car_y = 300 * POS
        /\ car_angle >= 0 /\ car_angle < TwoPiM
        /\ car_speed = 3
        /\ steps = 0 /\ total_distance = 0 /\ stationary_steps = 0

C10_Witness ==
    lastCall.op = "reset" /\ collision /\ reward < 0 /\ car_velocity = 0


\* C11: reset and step leave the obstacle list exactly as generate_obstacles
\* built it at construction: four boundary walls and eight interior
\* rectangles, the same ones in every state of a run.
C11_ObstaclesKept ==
    [][ /\ lastCall'.op \in {"reset", "step"} => obstacles' = obstacles
        /\ \E interior \in InteriorLayouts :
              obstacles' = generate_obstacles(interior)
        /\ Len(obstacles') = 12 ]_vars

C11_Witness ==
    /\ lastCall = NoCall
    /\ steps = 0
    /\ collision
    /\ obstacles = generate_obstacles(InteriorBlocked)


\* max(floor, start * decay^E), the decay applied E times in 1/1000
RECURSIVE EpsilonAfter(_)
EpsilonAfter(E) ==
    IF E = 0 THEN EpsStart
    ELSE LET e == (EpsilonAfter(E - 1) * EpsDecay) \div 1000
         IN  IF e < EpsMin THEN EpsMin ELSE e

\* The training loop stands between two episodes, or after the last one
BetweenEpisodes == program = "train" /\ loop_pc \in {"for", "end"}

\* C12: in the training loop epsilon is decayed once per completed episode,
\* multiplicatively and floored: after E completed episodes it equals
\* max(floor, start * decay^E).
C12_EpsilonDecay ==
    BetweenEpisodes => epsilon = EpsilonAfter(episode)

\* The training loop has just passed the replay test that follows a step
AfterReplayTest ==
    program = "train" /\ loop_pc \in {"act", "sync"} /\ AfterStep

\* C13: after every environment step of the training loop a replay is
\* performed if the buffer holds at least batch_size transitions, and is
\* skipped only when it holds fewer.
C13_ReplayIffEnough ==
    AfterReplayTest => (replayed <=> Len(memory) >= BatchSize)

\* Episodes whose target-network test the loop has passed
SyncTested == IF loop_pc = "save" THEN episode + 1 ELSE episode

\* C14: update_target_network runs only between episodes, after an episode
\* has ended and never inside its step loop, and once every 10 completed
\* episodes (after the 1st, the 11th, the 21st, ...).
C14_TargetSync ==
    /\ [](program = "train" =>
            syncs = {e \in 0..(SyncTested - 1) : e % 10 = 0})
    /\ [][ (target' # target \/ syncs' # syncs) =>
             /\ loop_pc = "sync" /\ done
             /\ loop_pc' = "save"
             /\ target' = online
             /\ steps' = steps /\ memory' = memory ]_vars

C14_Witness ==
    /\ program = "train"
    /\ loop_pc = "act"
    /\ episode = 25
    /\ syncs = {0, 10, 20}
    /\ target.version > 0 /\ target.version < online.version

\* The agent.save calls due once n episodes have been completed
PeriodicSaves(n) == [i \in 1..(n \div 100) |-> Saved("episode", 100 * i)]

\* C15: the training loop saves a checkpoint after every 100th completed
\* episode and a final one once all episodes are done, each holding the
\* online network as the last completed episode left it; nothing is saved
\* in the middle of an episode.
C15_Checkpoints ==
    /\ [](program = "train" =>
            saves = IF loop_pc = "end"
                    THEN Append(PeriodicSaves(episode),
                                Saved("final", episodes))
                    ELSE PeriodicSaves(episode))
    /\ [][ (saves' # saves \/ file' # file) =>
             /\ loop_pc \in {"save", "for"}
             /\ loop_pc' \in {"for", "end"}
             /\ steps = 0 \/ done
             /\ file' = save(online)
             /\ steps' = steps /\ online' = online ]_vars

C15_Witness ==
    /\ program = "train"
    /\ loop_pc = "end"
    /\ episode = episodes
    /\ Len(saves) = 3
    /\ saves[1] = Saved("episode", 100)
    /\ saves[3].kind = "final"
    /\ file = save(online)


\* The order in which the training loop passes from one call to the next
LoopOrder ==
    { << "for", "act" >>, << "act", "step" >>, << "step", "remember" >>,
      << "remember", "replay" >>, << "replay", "act" >>,
      << "replay", "sync" >>, << "sync", "save" >>, << "save", "for" >>,
      << "for", "end" >> }

\* C16: a training episode runs reset, then act -> step -> remember ->
\* replay again and again until step returns done; act is given the state
\* reset or the previous step returned, step the action act returned, and
\* the transition remembered is (the state act was given, the action act
\* returned, the reward, state and done flag step returned); no step
\* follows a step that returned done.
C16_EpisodeOrder ==
    [][ program = "train" =>
        /\ << loop_pc, loop_pc' >> \in LoopOrder
        /\ loop_pc = "for" /\ loop_pc' = "act" =>
              lastCall' = NoCall /\ steps' = 0 /\ ~done'
        /\ loop_pc = "act" =>
              /\ ~done
              /\ act_arg' = state
              /\ act_mode' = "training"
              /\ lastCall' = lastCall
        /\ loop_pc = "step" =>
              /\ ~done
              /\ steps' = steps + 1
              /\ lastCall' = [op |-> "step", action |-> loop_action]
              /\ act_arg' = act_arg /\ loop_action' = loop_action
        /\ loop_pc = "remember" =>
              /\ memory' # << >>
              /\ memory'[Len(memory')] =
                    Transition(act_arg, lastCall.action, reward, state, done)
              /\ UNCHANGED << state, reward, done, lastCall, steps >>
        /\ loop_pc = "replay" =>
              /\ loop_pc' = "act" <=> ~done
              /\ UNCHANGED << state, memory, lastCall, steps >>
        /\ steps' # steps /\ steps' # 0 => loop_pc = "step"
        /\ memory' # memory => loop_pc = "remember" ]_vars

\* An episode of two steps: the second transition starts where the first
\* ended, and only the second is terminal
C16_Witness ==
    /\ program = "train"
    /\ loop_pc = "sync"
    /\ steps = 2
    /\ Len(memory) = 2
    /\ memory[1].state # memory[1].next_state
    /\ memory[2].state = memory[1].next_state
    /\ ~memory[1].done /\ memory[2].done
    /\ memory[1].action = 0 /\ memory[2].action = 0

\* C17: the replay buffer never holds more than its capacity; a transition
\* remembered by a full buffer pushes out the oldest one and the others
\* keep their order, and below capacity nothing is lost.
C17_BoundedFifo ==
    /\ [](Len(memory) <= Capacity)
    /\ [][ loop_pc = "remember" /\ program = "train" =>
             /\ memory'[Len(memory')] = Remembered
             /\ IF Len(memory) = Capacity
                THEN /\ Len(memory') = Capacity
                     /\ \A i \in 1..(Capacity - 1) :
                           memory'[i] = memory[i + 1]
                ELSE /\ Len(memory') = Len(memory) + 1
                     /\ \A i \in 1..Len(memory) :
                           memory'[i] = memory[i] ]_vars

\* More episodes than the buffer holds, and the buffer's oldest entry
\* differs from its newest
C17_Witness ==
    /\ program = "train"
    /\ loop_pc = "replay"
    /\ episode > Capacity
    /\ Len(memory) = Capacity
    /\ memory[1].action # memory[Capacity].action


\* The run is the deployment controller's or the evaluation's
AgentRun == program \in {"deploy", "eval"}

\* The deployment controller or the evaluation has finished its load call
LoadTried == AgentRun /\ loaded # "no"

\* C18: a checkpoint that save wrote, read by load into the fresh agent of
\* the deployment controller or of the evaluation, gives that agent the
\* saved parameters, hence the same greedy action for every state; the
\* checkpoint the training loop writes is one of them.
C18_RoundTrip ==
    LoadTried /\ file.kind = "checkpoint" =>
        loaded = "ok" /\ save(online) = file

\* C19: when the load fails the dependent run is abandoned: the controller
\* never connects nor sends a command, the evaluation resets and steps
\* nothing, and no action is ever asked of an agent that did not load.
C19_LoadFailureAborts ==
    /\ LoadTried /\ loaded = "failed" =>
          /\ act_mode = "none"
          /\ online.version = 0
          /\ program = "deploy" =>
                /\ ctrl_pc = "crashed"
                /\ ~connected /\ sent = "" /\ ctrl_action = -1
          /\ program = "eval" =>
                /\ loop_pc = "end"
                /\ episode = 0 /\ lastCall = NoCall /\ steps = 0
                /\ loop_action = -1
    /\ AgentRun /\ act_mode # "none" =>
          loaded = "ok" /\ save(online) = file

C19_Witness ==
    /\ program = "deploy"
    /\ loaded = "failed"
    /\ file = NoFile
    /\ ctrl_pc = "crashed"

\* C20 as stated: deployment and evaluation call act with training=false
\* only, and no step of theirs changes the agent's stored epsilon.
C20_EpsilonUntouched ==
    [][ AgentRun => act_mode' # "training" /\ epsilon' = epsilon ]_vars

\* C20, amended: deployment and evaluation call act with training=false
\* only; they set the stored epsilon to 0 once, together with a successful
\* load, and nothing they do afterwards changes it.
C20_EpsilonZeroedOnce ==
    /\ [](AgentRun =>
            /\ act_mode # "training"
            /\ epsilon = IF loaded = "ok" THEN 0 ELSE EpsStart)
    /\ [][ AgentRun /\ epsilon' # epsilon =>
             loaded = "no" /\ loaded' = "ok" /\ act_mode = "none" ]_vars

C20_Witness ==
    /\ program = "eval"
    /\ loaded = "ok"
    /\ epsilon = 0
    /\ act_mode = "greedy"
    /\ episode = 2
    /\ AfterStep


\* One call of step with this action
Stepped(a) ==
    steps' = steps + 1 /\ lastCall' = [op |-> "step", action |-> a]

\* C21: a step taken without rendering, from the obstacles, pose, velocity
\* and counters a rendered step started from and with the same action,
\* returns the same state, reward and done flag and leaves the same pose
\* and counters as the rendered step did.
C21_RenderNeutral ==
    [][ \A d \in shown :
          /\ ~render_mode
          /\ Stepped(d.action)
          /\ d.from = envVars
          => << envVars', state', reward', done' >> = d.to ]_vars

\* The second episode of a training run, not drawn, has just repeated the
\* first step of the first episode, which was drawn
C21_Witness ==
    /\ program = "train"
    /\ ~render_mode
    /\ episode = 1
    /\ AfterStep /\ steps = 1 /\ ~collision /\ car_velocity > 0
    /\ \E d \in shown :
          /\ d.action = lastCall.action
          /\ d.to = << envVars, state, reward, done >>
          /\ d.from # envVars


\* What the fixed-point cosine and sine may add to or take from the length
\* of one forward step, in 1/1000 pixel
ForwardTol == 30


\* An episode that so far consists of forward steps only, none of which
\* collided, in the arena whose interior rectangles lie off the car's path
ForwardRun ==
    /\ program = "simulator"
    /\ obstacles = generate_obstacles(InteriorClear)
    /\ AfterStep /\ lastCall.action = 0
    /\ ~collision

\* C22: after N forward steps from reset, none of which collided, the total
\* distance is N * 2 * speed level, heading and speed level are those of
\* the reset, and the episode has not ended.
C22_ForwardDistance ==
    ForwardRun =>
        /\ Abs(total_distance - steps * 2 * car_speed * POS)
              <= steps * ForwardTol
        /\ car_speed = 3
        /\ car_angle \in InitAngles
        /\ ~done

C22_Witness ==
    ForwardRun /\ steps = 20 /\ total_distance > 119000


\* C23: the (L, C, R) triple from which get_state builds its state is the
\* content self.distances had at one moment of the call, never a mix of
\* values from before and after an update by the serial reader.
C23_NoTornRead ==
    program = "deploy" /\ ctrl_pc = "act" /\ snapshots # {} =>
        seen \in snapshots


\* C24: once KeyboardController.update has read ESC, should_stop returns true
\* at the check of that iteration, so that the loop exits and disconnects
C24_EscStops ==
    program = "app" /\ app_pc = "loop" /\ key = Esc => ~app_running


\* Equal up to the fixed-point error: half a percent of b, and rounding
Near(a, b) == Abs(a - b) * 200 <= b + 400

\* The position a step without collision reaches from the heading it ends
\* with and the velocity it set
Advanced ==
    /\ car_x' = Advance(car_x, car_velocity', Cos(car_angle'))
    /\ car_y' = Advance(car_y, car_velocity', Sin(car_angle'))
    /\ Near(distance_moved', car_velocity')

\* C25: a forward step (index 0) sets the velocity to twice the speed level,
\* leaves heading and speed level unchanged, and without a collision advances
\* the position by that velocity along the heading.
C25_Forward ==
    [][ Stepped(0) =>
          /\ car_velocity' = 2 * car_speed * POS
          /\ car_angle' = car_angle
          /\ car_speed' = car_speed
          /\ ~collision' => Advanced ]_vars

C25_Witness ==
    /\ AfterStep /\ lastCall.action = 0 /\ ~collision
    /\ steps = 2 /\ car_speed = 5 /\ car_velocity = 10 * POS
    /\ distance_moved > 9 * POS

\* C26: rotate-left (1) and rotate-right (2) change the heading by exactly
\* -0.1 and +0.1 radians, set the velocity to half the speed level, leave
\* the speed level unchanged and advance the position along the updated
\* heading; no other action of step changes the heading.
C26_Rotate ==
    [][ /\ \A a \in {1, 2} :
             Stepped(a) =>
               /\ car_angle' = car_angle + (IF a = 1 THEN -100 ELSE 100)
               /\ 2 * car_velocity' = car_speed * POS
               /\ car_speed' = car_speed
               /\ ~collision' => Advanced
        /\ \A a \in CallerActions \ {1, 2} :
             Stepped(a) => car_angle' = car_angle ]_vars

C26_Witness ==
    /\ AfterStep /\ lastCall.action = 1 /\ ~collision
    /\ steps = 2 /\ car_angle = 800 /\ car_velocity = 1500

C28_Accounting ==
    [][ /\ lastCall'.op = "step" /\ envVars' # envVars =>
             /\ steps' = steps + 1
             /\ distance_moved' = Distance(car_x, car_y, car_x', car_y')
             /\ collision' => distance_moved' = 0
             /\ total_distance' = total_distance + distance_moved'
             /\ stationary_steps' = IF 2 * distance_moved' < POS
                                    THEN stationary_steps + 1 ELSE 0
        /\ steps' # steps => steps' = steps + 1 \/ lastCall'.op = "reset"
      ]_vars

C28_Witness ==
    /\ AfterStep /\ ~collision
    /\ steps = 2 /\ stationary_steps = 0
    /\ distance_moved > 0 /\ total_distance = distance_moved


\* The training loop is at a call of env.reset or env.step
AtEnvCall == loop_pc \in {"for", "step"}

\* C29: pose (position, heading, speed level, velocity) and episode counters
\* are changed only by step and reset; the observation functions and render
\* leave pose, counters and obstacles unchanged, and the training loop never
\* writes them.
C29_Frame ==
    [][ /\ envVars' # envVars => AtEnvCall
        /\ obstacles' = obstacles
        /\ AtEnvCall /\ loop_pc' # "for" =>
             state' = get_state(car_x', car_y', car_angle', car_speed',
                                obstacles') ]_vars

C29_Witness ==
    /\ program = "train" /\ loop_pc = "save" /\ replayed
    /\ steps = 2 /\ total_distance > 0 /\ car_velocity > 0
    /\ Len(memory) = Capacity


\* C30: every episode terminates: from reset, whatever the actions, step
\* returns done = true no later than the 1001st step, so a loop that steps
\* while not done makes at most 1001 steps in an episode.
C30_EpisodeEnds ==
    /\ steps <= 1001
    /\ AfterStep /\ steps >= 1001 => done
    /\ done => AfterStep

C30_Witness ==
    /\ AfterStep /\ lastCall.action \in {1, 2}
    /\ steps = 1001 /\ done /\ stationary_steps = 0
    /\ total_distance > 1000 * POS


\* C31: right after construction and after every reset the car, placed at
\* the arena centre, is not in collision, whatever layout generate_obstacles
\* drew.
C31_StartsClear ==
    program = "simulator" /\ lastCall.op = "reset" /\ steps = 0 =>
        ~check_collision(car_x, car_y, obstacles)


\* C32: with valid action indices (0..7) every step that does not collide
\* moves the car by at least 0.5 units, so the low-motion counter is 0 after
\* it.
C32_AlwaysMoves ==
    [][ \A a \in 0..7 :
          Stepped(a) /\ ~collision' =>
            /\ 2 * distance_moved' >= POS
            /\ stationary_steps' = 0 ]_vars


\* A transition of the running controller that is not the serial reader's
Ticked ==
    /\ program = "deploy"
    /\ ctrl_pc = "control"
    /\ distances' = distances
    /\ ctrl_action' \in DOMAIN action_map

\* The write succeeded: the command is on the port, a speed command is
\* recorded, the link is kept and send_command returns True
Written ==
    /\ connected'
    /\ sent' = action_map[ctrl_action']
    /\ current_speed' = IF sent' \in SpeedCommands THEN IntOf(sent')
                        ELSE current_speed

\* The write failed: nothing reached the port, the link is marked lost and
\* send_command returns False
WriteFailed ==
    /\ ~connected'
    /\ sent' = sent
    /\ current_speed' = current_speed

SendOutcome ==
    /\ Ticked /\ connected => Written \/ WriteFailed
    /\ Ticked /\ ~connected => WriteFailed
    /\ current_speed' # current_speed =>
         /\ connected /\ connected'
         /\ sent' \in SpeedCommands
         /\ current_speed' = IntOf(sent')

SpeedTracksSent ==
    /\ current_speed \in 1..5
    /\ sent \in SpeedCommands => current_speed = IntOf(sent)
    /\ sent = "" => current_speed = 3

\* C35: in ArduinoAIController.send_command a failed write sets connected to
\* false and returns False, nothing is written while disconnected, and
\* current_speed changes only after a successful write of '1'..'5', so it
\* equals the last speed level successfully sent (or the initial 3) and
\* stays in 1..5.
C35_SendCommand == []SpeedTracksSent /\ [][SendOutcome]_vars

C35_Witness ==
    /\ program = "deploy" /\ ctrl_pc = "control" /\ ~connected
    /\ sent = "5" /\ current_speed = 5 /\ ctrl_action = 4


StoredInRange ==
    /\ left_speed \in -255..255
    /\ right_speed \in -255..255
    /\ mc_servo \in 0..180

\* Every command the call wrote carries the values stored by it
CarriesStored ==
    \A i \in 1..Len(wire') :
        /\ wire'[i][1] = "L" =>
             wire'[i] = << "L", left_speed', "R", right_speed' >>
        /\ wire'[i][1] = "S" => wire'[i] = << "S", mc_servo' >>

\* A call made while disconnected, and what it leaves
DisconnectedCall == program = "motors" /\ ~mc_connected /\ ~mc_connected'

StoredKept ==
    /\ left_speed' = left_speed
    /\ right_speed' = right_speed
    /\ mc_servo' = mc_servo
    /\ wire' = << >>

\* C36 as stated: after any sequence of set_motors, set_servo and
\* emergency_stop calls the stored speeds lie in [-255, 255] and the angle in
\* [0, 180], every command written carries the stored values, and a call
\* made while disconnected returns False and leaves the stored values
\* unchanged.
C36_DisconnectedReturnsFalse ==
    /\ []StoredInRange
    /\ [][ /\ CarriesStored
           /\ DisconnectedCall => StoredKept /\ returned'.value = "False"
         ]_vars

\* C36 amended: ... a set_motors or set_servo call made while disconnected
\* returns False, emergency_stop returns None whether connected or not, and
\* every call made while disconnected leaves the stored values unchanged.
C36_Clamped ==
    /\ []StoredInRange
    /\ [][ /\ CarriesStored
           /\ DisconnectedCall =>
                /\ StoredKept
                /\ returned'.op \in {"set_motors", "set_servo"} =>
                     returned'.value = "False"
           /\ returned'.op = "emergency_stop" => returned'.value = "None"
         ]_vars

C36_Witness ==
    /\ program = "motors" /\ ~mc_connected
    /\ left_speed = 255 /\ right_speed = -255 /\ mc_servo = 180
    /\ returned = [op |-> "emergency_stop", value |-> "None"]
    /\ wire = << >>


\* C34: whenever SimpleRobotController is running and connected, a background
\* serial reader is active to update last_distance from the DIST lines, also
\* when the connection was made with the 'F' retry key.
C34_ReaderWhileConnected ==
    program = "simple" /\ ui_pc = "loop" /\ ui_running /\ ui_connected =>
        ui_reader


\* The front-end's run is over
Finished ==
    \/ program = "deploy" /\ ctrl_pc = "exit"
    \/ program = "app" /\ app_pc = "done"
    \/ program \in {"simple", "pad"} /\ ui_pc = "done"

\* Its connected flag
Linked ==
    \/ program = "deploy" /\ connected
    \/ program = "app" /\ mc_connected
    \/ program \in {"simple", "pad"} /\ ui_connected

StopCommands == {"X", "L:0,R:0", "M,0,0"}

\* The port was closed once, a stop command was written before that and
\* nothing after it
StopThenClose(log) ==
    \E j \in 1..Len(log) :
        /\ log[j] = Close
        /\ \E i \in 1..(j - 1) :
              log[i].ev = "write" /\ log[i].cmd \in StopCommands
        /\ \A k \in 1..Len(log) : k # j => log[k].ev = "write" /\ k < j

====
